---- MODULE Spec2Model ----
(***************************************************************************)
(* The Figma service of ts-azure-health (frontend lib figmaService.ts):    *)
(* the module-level FigmaCache singleton (an ECMAScript Map kept in        *)
(* insertion order, a TTL checked lazily on get, hit/miss counters) and    *)
(* the exported functions built on it.                                     *)
(*                                                                         *)
(* Spec         drives the cache directly: get / set / clear / getStats   *)
(*              with arbitrary keys, and the passage of time.             *)
(* SpecService  drives the exported functions: fetchFile / fetchImages    *)
(*              calls, each a synchronous part up to the awaited network  *)
(*              call and a continuation once it settles, interleaved      *)
(*              with clearCache, getCacheStats and the passage of time.   *)
(* SpecKeys     builds the cache keys of two requests, to compare them.   *)
(* SpecRoute    drives GET /api/figma/preview, the route built on         *)
(*              fetchImage: one request at a time, from the query to the  *)
(*              response.                                                 *)
(* SpecScripts  runs the CI scripts policy-check.sh and cost-analysis.sh  *)
(*              with their arguments and tools as inputs.                 *)
(***************************************************************************)
EXTENDS Integers, Sequences, FiniteSets, Bags, TLC

(***************************************************************************)
(* Program constants.  The source sets CACHE_MAX_SIZE = 50 (entries) and   *)
(* CACHE_TTL_MS = 30 * 60 * 1000 (milliseconds).  The model keeps the      *)
(* names and scales the numbers down to 2 entries and 1 clock unit, so     *)
(* that a full cache, an eviction, an age equal to the TTL and an expiry   *)
(* are all reached; nothing below depends on the particular values.        *)
(***************************************************************************)
CACHE_MAX_SIZE == 2

CACHE_TTL_MS == 1

(***************************************************************************)
(* Bounds of the model.                                                    *)
(***************************************************************************)

\* Date.now() ranges over 0..MaxTime (a monotonic millisecond clock).
MaxTime == 3

\* At most MaxGets cache lookups are issued between two clears.
MaxGets == 2

\* Number of fetchFile / fetchImages calls that can be pending at once.
NumCalls == 2

\* At most MaxFetches fetchFile / fetchImages calls are started in a run.
MaxFetches == 3

\* At most MaxResources resources are listed by `az policy state list`.
MaxResources == 2

\* The strings used as keys when the cache is driven directly; the empty
\* string is one of them.  One key more than the cache can hold.
KeyPool == <<"", "a", "b", "c", "d">>

Keys == {KeyPool[i] : i \in 1..(CACHE_MAX_SIZE + 1)}

\* Payloads handed to set (opaque to the cache).
Values == {"v1", "v2"}

\* What get returns when it has nothing to return (JavaScript null).
Null == "null"

\* "no key": the value of firstKey / evicted when there is none (undefined).
NoKey == "<undefined>"

VARIABLES
    cache,          \* FigmaCache.cache: the Map, as the sequence of its entries in iteration order
    hits,           \* FigmaCache.stats.hits
    misses,         \* FigmaCache.stats.misses
    now,            \* the value Date.now() returns
    clientInstance, \* whether the module-level clientInstance has been created (non-null)
    envToken,       \* whether FIGMA_API_TOKEN (or FIGMA_API_KEY) is set in the environment
    envFileKey,     \* process.env.FIGMA_FILE_KEY, Undefined when not set
    calls,          \* the bag of fetchFile / fetchImages calls awaiting their network call
    gets,           \* history: number of get calls since the last clear (or creation)
    started,        \* history: number of fetchFile / fetchImages calls started
    memo,           \* history: per cache key, the last successful fetch still held (see MemoAfter...)
    failed,         \* history: the last failed fetch not yet followed by a call for its key
    last,           \* history: the last operation, its arguments and what it returned
    pair,           \* two requests and the cache keys computed for them (SpecKeys)
    http,           \* the preview route: the request handled last and its response (SpecRoute)
    shell           \* the CI scripts: the last run, its arguments, its tools, its exit status (SpecScripts)

cacheVars == <<cache, hits, misses>>

serviceVars == <<clientInstance, envToken, envFileKey, calls, started, memo, failed>>

\* What the cache and the service leave alone.
otherVars == <<pair, http, shell>>

vars == <<cache, hits, misses, now, clientInstance, envToken, envFileKey, calls,
          gets, started, memo, failed, last, pair, http, shell>>

(***************************************************************************)
(* ECMAScript Map, as FigmaCache uses it.  Iteration order is the order in *)
(* which the keys were first inserted; set on a key that is present        *)
(* replaces the value in place and does not move the key.                  *)
(***************************************************************************)
MapHas(c, k) == \E i \in 1..Len(c) : c[i].key = k

MapGet(c, k) == c[CHOOSE i \in 1..Len(c) : c[i].key = k]

MapDelete(c, k) == SelectSeq(c, LAMBDA e : e.key # k)

MapSet(c, k, e) ==
    IF MapHas(c, k)
    THEN [i \in 1..Len(c) |-> IF c[i].key = k THEN e ELSE c[i]]
    ELSE Append(c, e)

\* this.cache.keys().next().value
MapFirstKey(c) == IF Len(c) = 0 THEN NoKey ELSE c[1].key

\* JavaScript truthiness of a string-or-undefined: "" and undefined are falsy.
Truthy(s) == s # "" /\ s # NoKey

CacheEntry(k, data, t) == [key |-> k, data |-> data, timestamp |-> t]

(***************************************************************************)
(* FigmaCache.get                                                          *)
(***************************************************************************)
\* Mutant of Expired: an entry whose age equals the TTL is already expired.
ExpiredAtTtl(age) == age >= CACHE_TTL_MS

\* if (age > CACHE_TTL_MS)
Expired(age) == age > CACHE_TTL_MS

\* Mutant of CacheGet: the expiry branch forgets this.stats.misses++.
CacheGetNoMissOnExpiry(c, h, m, k, t) ==
    IF ~MapHas(c, k)
    THEN [cache |-> c, hits |-> h, misses |-> m + 1, ret |-> Null]
    ELSE LET entry == MapGet(c, k)
             age   == t - entry.timestamp
         IN  IF Expired(age)
             THEN [cache |-> MapDelete(c, k), hits |-> h, misses |-> m, ret |-> Null]
             ELSE [cache |-> c, hits |-> h + 1, misses |-> m, ret |-> entry.data]

\* Mutant of CacheGet: a true LRU, a hit moves the entry to the most recent end.
CacheGetLru(c, h, m, k, t) ==
    IF ~MapHas(c, k)
    THEN [cache |-> c, hits |-> h, misses |-> m + 1, ret |-> Null]
    ELSE LET entry == MapGet(c, k)
             age   == t - entry.timestamp
         IN  IF Expired(age)
             THEN [cache |-> MapDelete(c, k), hits |-> h, misses |-> m + 1, ret |-> Null]
             ELSE [cache |-> Append(MapDelete(c, k), entry),
                   hits |-> h + 1, misses |-> m, ret |-> entry.data]

\* Mutant of CacheGet: the expiry branch counts the miss and leaves the entry in the map.
CacheGetKeepsExpired(c, h, m, k, t) ==
    IF ~MapHas(c, k)
    THEN [cache |-> c, hits |-> h, misses |-> m + 1, ret |-> Null]
    ELSE LET entry == MapGet(c, k)
             age   == t - entry.timestamp
         IN  IF Expired(age)
             THEN [cache |-> c, hits |-> h, misses |-> m + 1, ret |-> Null]
             ELSE [cache |-> c, hits |-> h + 1, misses |-> m, ret |-> entry.data]

\* The whole of get(key) at clock value t: the new map, the new counters
\* and the value returned.
CacheGet(c, h, m, k, t) ==
    IF ~MapHas(c, k)
    THEN [cache |-> c, hits |-> h, misses |-> m + 1, ret |-> Null]
    ELSE LET entry == MapGet(c, k)
             age   == t - entry.timestamp
         IN  IF Expired(age)
             THEN [cache |-> MapDelete(c, k), hits |-> h, misses |-> m + 1, ret |-> Null]
             ELSE [cache |-> c, hits |-> h + 1, misses |-> m, ret |-> entry.data]

(***************************************************************************)
(* FigmaCache.set                                                          *)
(***************************************************************************)
\* if (this.cache.size >= CACHE_MAX_SIZE && !this.cache.has(key))
CacheFull(c, k) == Len(c) >= CACHE_MAX_SIZE /\ ~MapHas(c, k)

\* The key the eviction branch deletes, NoKey when it deletes nothing:
\* firstKey is deleted only if (firstKey), i.e. when it is truthy.
EvictedKey(c, k) ==
    IF CacheFull(c, k) /\ Truthy(MapFirstKey(c)) THEN MapFirstKey(c) ELSE NoKey

\* The map after the eviction branch.
AfterEvict(c, k) ==
    IF EvictedKey(c, k) # NoKey THEN MapDelete(c, EvictedKey(c, k)) ELSE c

\* Mutant of CacheSet: an overwrite replaces the data and keeps the old timestamp.
CacheSetKeepsTimestamp(c, k, data, t) ==
    MapSet(AfterEvict(c, k), k,
           CacheEntry(k, data, IF MapHas(c, k) THEN MapGet(c, k).timestamp ELSE t))

\* The whole of set(key, data) at clock value t: the new map.
CacheSet(c, k, data, t) == MapSet(AfterEvict(c, k), k, CacheEntry(k, data, t))

(***************************************************************************)
(* FigmaCache.clear                                                        *)
(***************************************************************************)
\* Mutant of CacheClear: the miss counter survives a clear.
CacheClearKeepsMisses == [cache |-> << >>, hits |-> 0, misses |-> misses]

\* The map and the counters after clear().
CacheClear == [cache |-> << >>, hits |-> 0, misses |-> 0]

(***************************************************************************)
(* FigmaCache.getStats                                                     *)
(***************************************************************************)
\* Mutant of CacheStats: maxSize reports the current size, not the configured one.
CacheStatsMaxFromSize(c, h, m) ==
    [hits |-> h, misses |-> m, size |-> Len(c),
     maxSize |-> Len(c), ttlMs |-> CACHE_TTL_MS]

CacheStats(c, h, m) ==
    [hits |-> h, misses |-> m, size |-> Len(c),
     maxSize |-> CACHE_MAX_SIZE, ttlMs |-> CACHE_TTL_MS]

NoStats == [hits |-> -1, misses |-> -1, size |-> -1, maxSize |-> -1, ttlMs |-> -1]

(***************************************************************************)
(* The exported functions: arguments, environment, cache keys.             *)
(***************************************************************************)
\* An omitted optional argument, an unset environment variable.
Undefined == NoKey

\* The requests tried.  fileKey, format and scale are optional.
Requests ==
    {[kind |-> "file", fileKey |-> fk, nodeIds |-> << >>, format |-> Undefined, scale |-> 0]
        : fk \in {Undefined, "F1"}}
    \cup
    {[kind |-> "images", fileKey |-> Undefined, nodeIds |-> ids, format |-> f, scale |-> 0]
        : ids \in {<< >>, <<"1:2">>}, f \in {Undefined, "svg"}}

\* Payloads the Figma API answers with (objects: truthy in JavaScript).
Responses == {"r1", "r2"}

\* The errors thrown.
ERR_TOKEN == "Figma API token not found. Please set FIGMA_API_TOKEN environment variable."

ERR_FILE_KEY == "No file key provided and FIGMA_FILE_KEY environment variable is not set."

ERR_NODE_IDS == "nodeIds array is required and cannot be empty"

ERR_NO_IMAGES == "No images returned from Figma API"

ERR_API == "rejected by the Figma API"

\* nodeIds.join(",")
RECURSIVE JoinIds(_)
JoinIds(ids) ==
    IF Len(ids) = 0 THEN ""
    ELSE IF Len(ids) = 1 THEN ids[1]
    ELSE ids[1] \o "," \o JoinIds(Tail(ids))

\* fileKey || getDefaultFileKey(), before getDefaultFileKey's check
FileKeyOf(r) == IF Truthy(r.fileKey) THEN r.fileKey ELSE envFileKey

\* options?.format || "png"
FormatOf(r) == IF Truthy(r.format) THEN r.format ELSE "png"

\* A JavaScript number in a template literal.  Numbers are held in tenths
\* (10 is the number 1, 5 is 0.5): `${1}` is "1", `${0.5}` is "0.5".
NumberToString(n) ==
    IF n % 10 = 0 THEN ToString(n \div 10)
    ELSE ToString(n \div 10) \o "." \o ToString(n % 10)

\* options?.scale || 1   (0 stands for an omitted scale as well: both are falsy)
ScaleOf(r) == IF r.scale # 0 THEN r.scale ELSE 10

\* `file:${key}`  and  `images:${fileKey}:${nodeIds.join(",")}:${format}:${scale}`
CacheKeyOf(r) ==
    IF r.kind = "file"
    THEN "file:" \o FileKeyOf(r)
    ELSE "images:" \o FileKeyOf(r) \o ":" \o JoinIds(r.nodeIds) \o ":" \o FormatOf(r)
             \o ":" \o NumberToString(ScaleOf(r))

\* Mutant of ArgError: fetchImages does not check its node-id list.
ArgErrorFileKeyOnly(r) == IF ~Truthy(FileKeyOf(r)) THEN ERR_FILE_KEY ELSE ""

\* The error thrown before any cache access, "" when there is none:
\* fetchImages checks nodeIds first; both then need a file key.
ArgError(r) ==
    IF r.kind = "images" /\ Len(r.nodeIds) = 0 THEN ERR_NODE_IDS
    ELSE IF ~Truthy(FileKeyOf(r)) THEN ERR_FILE_KEY
    ELSE ""

\* getFigmaClient() succeeds: the client exists already, or a token is configured.
ClientAvailable == clientInstance \/ envToken

\* Mutant of FetchStore: the result of the network call is not stored.
FetchStoreNothing(c, ck, response, t) == c

\* Mutant of FetchStore: the result is stored without the eviction branch of set.
FetchStoreNoEvict(c, ck, response, t) == MapSet(c, ck, CacheEntry(ck, response, t))

\* Mutant of FetchStore: a result that arrives at an empty cache is dropped.
FetchStoreUnlessEmpty(c, ck, response, t) ==
    IF Len(c) = 0 THEN c ELSE CacheSet(c, ck, response, t)

\* cache.set(cacheKey, response) after the awaited call has resolved.
FetchStore(c, ck, response, t) == CacheSet(c, ck, response, t)

\* Mutant of FetchCatch: the catch block stores the failure under the cache key.
FetchCatchCachesError(c, ck, t) == CacheSet(c, ck, ERR_API, t)

\* The catch block: logs and rethrows; the map is left as it is.
FetchCatch(c, ck, t) == c

\* The errors a pending call can end with.
FailuresOf(kind) == IF kind = "images" THEN {ERR_API, ERR_NO_IMAGES} ELSE {ERR_API}

\* A call awaiting its network call.  sawStore (history): a call for the same
\* cache key has stored its result since this call's lookup.
PendingCall(kind, ck) == [kind |-> kind, cacheKey |-> ck, sawStore |-> FALSE]

\* The pending calls b once a result has been stored under ck.
MarkStored(b, ck) ==
    LET Mark(e) == IF e.cacheKey = ck THEN [e EXCEPT !.sawStore = TRUE] ELSE e
        T == {Mark(e) : e \in BagToSet(b)}
    IN  [t \in T |->
            IF t.cacheKey = ck
            THEN CopiesIn(t, b) + CopiesIn([t EXCEPT !.sawStore = FALSE], b)
            ELSE CopiesIn(t, b)]

\* The cache keys of the requests that pass the argument checks.
ServiceKeys == {"file:F1", "images:F1:1:2:png:1", "images:F1:1:2:svg:1"}

\* failed: the cache key of the last fetch that failed, until the next call for
\* that key starts; stored: a call for the same key has stored its result since
\* the failing call's lookup.
NoFailure == [key |-> NoKey, stored |-> FALSE]

\* memo[k]: the completion time and the result of the last successful fetch for
\* k since which k was neither cleared nor evicted; NoMemo when there is none.
NoMemo == [at |-> -1, val |-> Null]

(***************************************************************************)
(* The record of the last operation.                                       *)
(*   op      "new" | "get" | "set" | "clear" | "getStats"                  *)
(*           | "fetch" (synchronous part of fetchFile / fetchImages)       *)
(*           | "resolve" | "reject" (its continuation)                     *)
(*   key     the key of a get or a set, the cache key of a fetch           *)
(*   data    the payload of a set                                          *)
(*   ret     what a get returned (Null or the payload); what a fetch       *)
(*           found in the cache; what a resolved fetch returned            *)
(*   evicted the key a set evicted, NoKey if none                          *)
(*   prevTs  the timestamp of the entry a set overwrote, -1 if none        *)
(*   age     the age of the entry a get found, -1 if it found none         *)
(*   stats   what getStats returned; for a clear, the statistics just      *)
(*           before it (its size is the previousSize the code logs)        *)
(*   err     the error a fetch threw, "" if none                           *)
(*   net     whether a fetch issued its network call                       *)
(*   retry   whether a fetch is the first call for its key after a fetch   *)
(*           for that key failed with no result stored for it meanwhile    *)
(* A get that directly follows a set of the same key (only time passing    *)
(* in between) carries that set's data and prevTs on.                      *)
(***************************************************************************)
\* const age = Date.now() - entry.timestamp, -1 when get found no entry.
AgeFound(c, k, t) == IF MapHas(c, k) THEN t - MapGet(c, k).timestamp ELSE -1

NoOp ==
    [op |-> "new", key |-> NoKey, data |-> Null, ret |-> Null, evicted |-> NoKey,
     prevTs |-> -1, age |-> -1, stats |-> NoStats, err |-> "", net |-> FALSE,
     retry |-> FALSE]

\* No request.
NoRequest ==
    [kind |-> "none", fileKey |-> Undefined, nodeIds |-> << >>, format |-> Undefined, scale |-> 0]

\* pair before any key is computed.
NoPair == [a |-> NoRequest, b |-> NoRequest, keyA |-> NoKey, keyB |-> NoKey, computed |-> FALSE]

\* No error thrown: error objects are [message, status], status 0 when the
\* error carries no response.
NoError == [message |-> "", status |-> -1]

\* No response returned.
NoResponse ==
    [status |-> 0, error |-> "", details |-> "", location |-> "", retryAfter |-> "",
     cacheControl |-> ""]

\* http before any request.
NoHttp ==
    [handled |-> FALSE,
     query |-> [nodeId |-> Null, fileKey |-> Null, format |-> Null, scale |-> Null],
     request |-> NoRequest, thrown |-> NoError, url |-> Null, response |-> NoResponse]

\* shell before any run.
NoShell ==
    [script |-> "none", args |-> << >>, rgExists |-> FALSE, states |-> << >>, jq |-> "ok",
     azureCost |-> "ok", costOutput |-> "", nonCompliant |-> -1, actualCost |-> "",
     exit |-> -1]

\* The module as loaded: an empty cache, no client; the environment is whatever
\* the process was started with.
Loaded ==
    /\ cache = << >>
    /\ hits = 0
    /\ misses = 0
    /\ now = 0
    /\ clientInstance = FALSE
    /\ envToken \in BOOLEAN
    /\ envFileKey \in {Undefined, "F1"}
    /\ calls = EmptyBag
    /\ gets = 0
    /\ started = 0
    /\ memo = [k \in ServiceKeys |-> NoMemo]
    /\ failed = NoFailure
    /\ last = NoOp

\* The cache and the service on their own: nothing else runs.
Init ==
    /\ Loaded
    /\ pair = NoPair
    /\ http = NoHttp
    /\ shell = NoShell

\* cache.get(key)
Get(k) ==
    /\ gets < MaxGets
    /\ LET r == CacheGet(cache, hits, misses, k, now)
       IN  /\ cache' = r.cache
           /\ hits' = r.hits
           /\ misses' = r.misses
           /\ last' = [NoOp EXCEPT !.op = "get", !.key = k, !.ret = r.ret,
                                   !.age = AgeFound(cache, k, now),
                                   !.data = IF last.op = "set" /\ last.key = k
                                            THEN last.data ELSE Null,
                                   !.prevTs = IF last.op = "set" /\ last.key = k
                                              THEN last.prevTs ELSE -1]
    /\ gets' = gets + 1
    /\ UNCHANGED <<now, serviceVars, otherVars>>

\* cache.set(key, data)
Set(k, v) ==
    /\ cache' = CacheSet(cache, k, v, now)
    /\ last' = [NoOp EXCEPT !.op = "set", !.key = k, !.data = v,
                            !.evicted = EvictedKey(cache, k),
                            !.prevTs = IF MapHas(cache, k)
                                       THEN MapGet(cache, k).timestamp ELSE -1]
    /\ UNCHANGED <<hits, misses, now, gets, serviceVars, otherVars>>

\* cache.clear(), which is all clearCache() does
Clear ==
    /\ cache' = CacheClear.cache
    /\ hits' = CacheClear.hits
    /\ misses' = CacheClear.misses
    /\ gets' = 0
    /\ memo' = [k \in ServiceKeys |-> NoMemo]
    /\ last' = [NoOp EXCEPT !.op = "clear",
                            !.stats = CacheStats(cache, hits, misses)]
    /\ UNCHANGED <<now, clientInstance, envToken, envFileKey, calls, started, failed,
                   otherVars>>

\* cache.getStats(), which is all getCacheStats() does
GetStats ==
    /\ last' = [NoOp EXCEPT !.op = "getStats",
                            !.stats = CacheStats(cache, hits, misses)]
    /\ UNCHANGED <<cache, hits, misses, now, gets, serviceVars, otherVars>>

\* Time passes: Date.now() grows by one millisecond.
Tick ==
    /\ now < MaxTime
    /\ now' = now + 1
    /\ UNCHANGED <<cache, hits, misses, gets, last, serviceVars, otherVars>>

(***************************************************************************)
(* fetchFile(fileKey) / fetchImages(nodeIds, options), the part that runs  *)
(* synchronously: the argument checks, the cache key, cache.get, and on a  *)
(* miss getFigmaClient() and the start of the network call.                *)
(***************************************************************************)
FetchStart(r) ==
    /\ BagCardinality(calls) < NumCalls
    /\ started < MaxFetches
    /\ started' = started + 1
    /\ IF ArgError(r) # ""
       THEN \* thrown before the cache is touched
            /\ last' = [NoOp EXCEPT !.op = "fetch", !.err = ArgError(r)]
            /\ UNCHANGED <<cache, hits, misses, gets, clientInstance, calls, failed>>
       ELSE LET ck == CacheKeyOf(r)
                g  == CacheGet(cache, hits, misses, ck, now)
            IN  /\ cache' = g.cache
                /\ hits' = g.hits
                /\ misses' = g.misses
                /\ gets' = gets + 1
                /\ IF g.ret # Null
                   THEN \* if (cached) return cached
                        /\ last' = [NoOp EXCEPT !.op = "fetch", !.key = ck, !.ret = g.ret,
                                                !.age = AgeFound(cache, ck, now),
                                                !.retry = failed.key = ck /\ ~failed.stored]
                        /\ failed' = IF failed.key = ck THEN NoFailure ELSE failed
                        /\ UNCHANGED <<clientInstance, calls>>
                   ELSE IF ClientAvailable
                   THEN \* const api = getFigmaClient(); await api.getFile / getImages
                        /\ clientInstance' = TRUE
                        /\ calls' = calls (+) SetToBag({PendingCall(r.kind, ck)})
                        /\ last' = [NoOp EXCEPT !.op = "fetch", !.key = ck, !.net = TRUE,
                                                !.age = AgeFound(cache, ck, now),
                                                !.retry = failed.key = ck /\ ~failed.stored]
                        /\ failed' = IF failed.key = ck THEN NoFailure ELSE failed
                   ELSE \* getFigmaClient() throws; caught, logged, rethrown
                        /\ last' = [NoOp EXCEPT !.op = "fetch", !.key = ck, !.err = ERR_TOKEN,
                                                !.age = AgeFound(cache, ck, now),
                                                !.retry = failed.key = ck /\ ~failed.stored]
                        /\ failed' = [key |-> ck, stored |-> FALSE]
                        /\ UNCHANGED <<clientInstance, calls>>
    /\ UNCHANGED <<now, envToken, envFileKey, memo, otherVars>>

\* The keys whose memo ends when ck is stored into c: the key evicted, if any.
MemoAfterStore(c, ck, response, t) ==
    [k \in ServiceKeys |->
        IF k = ck THEN [at |-> t, val |-> response]
        ELSE IF k = EvictedKey(c, ck) THEN NoMemo
        ELSE memo[k]]

\* The awaited call of the pending call p resolves with a response (for
\* fetchImages, one that has images): the response is stored and returned.
FetchResolve(p, response) ==
    /\ BagIn(p, calls)
    /\ LET ck == p.cacheKey
       IN  /\ cache' = FetchStore(cache, ck, response, now)
           /\ memo' = MemoAfterStore(cache, ck, response, now)
           /\ calls' = MarkStored(calls (-) SetToBag({p}), ck)
           /\ failed' = IF failed.key = ck THEN [failed EXCEPT !.stored = TRUE] ELSE failed
           /\ last' = [NoOp EXCEPT !.op = "resolve", !.key = ck,
                                   !.data = response, !.ret = response,
                                   !.evicted = EvictedKey(cache, ck)]
    /\ UNCHANGED <<hits, misses, now, gets, clientInstance, envToken, envFileKey, started,
                   otherVars>>

\* The awaited call of the pending call p rejects, or (fetchImages) resolves
\* without images: the error is logged and rethrown.
FetchFail(p, err) ==
    /\ BagIn(p, calls)
    /\ err \in FailuresOf(p.kind)
    /\ LET ck == p.cacheKey
       IN  /\ cache' = FetchCatch(cache, ck, now)
           /\ calls' = calls (-) SetToBag({p})
           /\ failed' = [key |-> ck, stored |-> p.sawStore]
           /\ last' = [NoOp EXCEPT !.op = "reject", !.key = ck, !.err = err]
    /\ UNCHANGED <<hits, misses, now, gets, clientInstance, envToken, envFileKey,
                   started, memo, otherVars>>

Next ==
    \/ \E k \in Keys : Get(k)
    \/ \E k \in Keys, v \in Values : Set(k, v)
    \/ Clear
    \/ GetStats
    \/ Tick

\* The cache is driven directly: the environment plays no part, it is fixed.
InitCache == Init /\ envToken = TRUE /\ envFileKey = "F1"

Spec == InitCache /\ [][Next]_vars

NextService ==
    \/ \E r \in Requests : FetchStart(r)
    \/ \E p \in BagToSet(calls), response \in Responses : FetchResolve(p, response)
    \/ \E p \in BagToSet(calls), err \in {ERR_API, ERR_NO_IMAGES} : FetchFail(p, err)
    \/ Clear
    \/ GetStats
    \/ Tick

SpecService == Init /\ [][NextService]_vars

(***************************************************************************)
(* How a step is recognised in the properties below.                       *)
(***************************************************************************)
\* The step is a get (only a get counts one more lookup).
IsGet == gets' = gets + 1

\* The step is a set.
IsSet == last' # last /\ last'.op = "set"

\* The step is a getStats.
IsGetStats == last' # last /\ last'.op = "getStats"

\* The entry for k is present in c and fresh at clock value t.
Fresh(c, k, t) == MapHas(c, k) /\ t - MapGet(c, k).timestamp <= CACHE_TTL_MS

\* The keys of c, in iteration order.
KeyOrder(c) == [i \in 1..Len(c) |-> c[i].key]

(***************************************************************************)
(* C1  Capacity: in every reachable state the cache holds at most          *)
(* CACHE_MAX_SIZE entries.  (Stated as the claim states it; the code       *)
(* breaks it when the first key of a full cache is the empty string.)      *)
(***************************************************************************)
C1_Capacity == Len(cache) <= CACHE_MAX_SIZE

(***************************************************************************)
(* C2  Freshness: get(key) returns the stored value if and only if an      *)
(* entry for key exists and now - timestamp <= ttl; otherwise it returns   *)
(* null.  An age equal to the ttl is still a hit.                          *)
(***************************************************************************)
C2_Freshness ==
    [][IsGet =>
        LET k == last'.key
        IN  last'.ret = IF Fresh(cache, k, now) THEN MapGet(cache, k).data ELSE Null]_vars

\* A get has just returned the value of an entry whose age is exactly the ttl.
C2_Witness ==
    /\ last.op = "get"
    /\ last.ret # Null
    /\ last.age = CACHE_TTL_MS

(***************************************************************************)
(* C3  Accounting: hits + misses equals the number of get calls since the  *)
(* last clear (or creation), and every get adds exactly one to exactly     *)
(* one of the two counters.                                                *)
(***************************************************************************)
C3_Accounting ==
    /\ [](hits + misses = gets)
    /\ [][IsGet => \/ hits' = hits + 1 /\ misses' = misses
                   \/ hits' = hits /\ misses' = misses + 1]_vars

\* A get has just run after both a hit and a miss were counted.
C3_Witness == last.op = "get" /\ hits >= 1 /\ misses >= 1 /\ gets = hits + misses

(***************************************************************************)
(* C4  Eviction order: a set of a new key into a full cache evicts exactly *)
(* one entry, the one inserted earliest (smallest insertion time) among    *)
(* those present.  (Stated as the claim states it.)                        *)
(***************************************************************************)
C4_EvictionOrder ==
    [][(IsSet /\ Len(cache) >= CACHE_MAX_SIZE /\ ~MapHas(cache, last'.key)) =>
        /\ last'.evicted # NoKey
        /\ MapHas(cache, last'.evicted)
        /\ ~MapHas(cache', last'.evicted)
        /\ \A i \in 1..Len(cache) :
               MapGet(cache, last'.evicted).timestamp <= cache[i].timestamp]_vars

(***************************************************************************)
(* C5  Overwrite is delete + reinsert: after set(k, v2) on a key that is   *)
(* present, the cache equals the one obtained by deleting k and inserting  *)
(* (k, v2), so k is the most recently inserted entry.  (Stated as the      *)
(* claim states it.)                                                       *)
(***************************************************************************)
C5_OverwriteReinserts ==
    [][(IsSet /\ MapHas(cache, last'.key)) =>
        cache' = Append(MapDelete(cache, last'.key),
                        CacheEntry(last'.key, last'.data, now))]_vars

(***************************************************************************)
(* C6  Overwrite refreshes freshness: set(k, v2) on a key that is present  *)
(* leaves k with v2 and age zero, whatever the age of the entry it         *)
(* replaces; a get(k) that follows it within the ttl (only time passing    *)
(* in between) returns v2 and counts as a hit.                             *)
(***************************************************************************)
C6_OverwriteRefreshes ==
    [][/\ (IsSet /\ MapHas(cache, last'.key)) =>
              /\ MapHas(cache', last'.key)
              /\ MapGet(cache', last'.key).data = last'.data
              /\ MapGet(cache', last'.key).timestamp = now
       /\ (IsGet /\ last.op = "set" /\ last.prevTs >= 0 /\ last'.key = last.key
                 /\ now - MapGet(cache, last.key).timestamp <= CACHE_TTL_MS) =>
              /\ last'.ret = last.data
              /\ hits' = hits + 1
              /\ misses' = misses]_vars

\* A get has just hit, exactly ttl after an overwrite with v2 of an entry
\* that was held with another value and was older than the ttl when overwritten.
C6_Witness ==
    /\ last.op = "get"
    /\ last.prevTs >= 0
    /\ last.ret = "v2"
    /\ last.data = "v2"
    /\ MapHas(cache, last.key)
    /\ MapGet(cache, last.key).timestamp - last.prevTs > CACHE_TTL_MS
    /\ last.age = CACHE_TTL_MS

(***************************************************************************)
(* C7  Clear resets everything: right after clear() the cache is empty     *)
(* and both counters are zero; getStats then reports size 0, hits 0,       *)
(* misses 0 with maxSize and ttl as configured, and a get of any key       *)
(* returns null.                                                           *)
(***************************************************************************)
C7_ClearResets ==
    /\ [](last.op = "clear" => cache = << >> /\ hits = 0 /\ misses = 0)
    /\ [][/\ (last.op = "clear" /\ IsGetStats) =>
                 last'.stats = [hits |-> 0, misses |-> 0, size |-> 0,
                                maxSize |-> CACHE_MAX_SIZE, ttlMs |-> CACHE_TTL_MS]
          /\ (last.op = "clear" /\ IsGet) => last'.ret = Null]_vars

\* A clear has just run on a cache that held entries and had counted a hit and a miss.
C7_Witness ==
    /\ last.op = "clear"
    /\ last.stats.size >= 1
    /\ last.stats.hits >= 1
    /\ last.stats.misses >= 1

IsFetchStart == started' = started + 1

\* The step ends a pending call with an error.
IsReject == BagCardinality(calls') = BagCardinality(calls) - 1 /\ last'.op = "reject"

\* The step is a fetch that failed: a pending call rejected, or client creation threw.
IsFetchFailure == IsReject \/ (IsFetchStart /\ last'.err = ERR_TOKEN)

\* The step performed no set: every entry left was there before, unchanged.
NoSetBetween(c, d) == \A j \in 1..Len(d) : \E i \in 1..Len(c) : c[i] = d[j]

\* The fetch was not answered from the cache: it went on to the network call
\* (which getFigmaClient may have refused).
Attempted(l) == l.ret = Null /\ (l.net \/ l.err = ERR_TOKEN)

(***************************************************************************)
(* C9 as claimed  Failures are never cached: a failing fetch performs no   *)
(* set and throws, and the next call with the same cache key attempts the  *)
(* network operation again.                                                *)
(***************************************************************************)
C9_FailuresNeverCached ==
    [][/\ IsFetchFailure =>
              /\ NoSetBetween(cache, cache')
              /\ last'.err # ""
       /\ (IsFetchStart /\ last'.key # NoKey /\ last'.key = failed.key) =>
              Attempted(last')]_vars

(***************************************************************************)
(* C9 as amended  A failing fetch performs no set and throws, and the next *)
(* call with the same cache key attempts the network operation again,      *)
(* unless a call for that key that overlapped the failing one has stored   *)
(* its result since the failing call looked the key up.                    *)
(***************************************************************************)
C9_FailuresNeverCachedUnlessStored ==
    [][/\ IsFetchFailure =>
              /\ NoSetBetween(cache, cache')
              /\ last'.err # ""
       /\ (IsFetchStart /\ last'.key # NoKey /\ last'.key = failed.key /\ ~failed.stored) =>
              Attempted(last')]_vars

\* A fetch has just gone to the network as the first call for its key after a
\* fetch for that key failed.
C9_Witness == last.op = "fetch" /\ last.retry /\ last.net

(***************************************************************************)
(* C10  Memoization: once a fetch for a cache key has completed            *)
(* successfully, a later call for that key that starts within the ttl of   *)
(* that completion, with no clearCache and no eviction of the key in       *)
(* between, returns the stored result and issues no network call.          *)
(***************************************************************************)
C10_Memoization ==
    [][(IsFetchStart /\ last'.key \in ServiceKeys /\ memo[last'.key].at >= 0
                     /\ now - memo[last'.key].at <= CACHE_TTL_MS) =>
        /\ last'.ret = memo[last'.key].val
        /\ ~last'.net
        /\ last'.err = ""
        /\ calls' = calls]_vars

\* A fetch has just been answered from the cache, exactly ttl after the fetch
\* that stored the result completed.
C10_Witness ==
    /\ last.op = "fetch"
    /\ last.ret # Null
    /\ ~last.net
    /\ last.age = CACHE_TTL_MS
    /\ memo[last.key].val = last.ret

(***************************************************************************)
(* Outbound calls per cache key.                                           *)
(***************************************************************************)
\* A result for k is stored and within its ttl at clock value t.
MemoFresh(k, t) == memo[k].at >= 0 /\ t - memo[k].at <= CACHE_TTL_MS

\* The number of calls for the cache key k among the pending calls b.
PendingIn(b, k) ==
    BagCardinality([p \in {q \in BagToSet(b) : q.cacheKey = k} |-> CopiesIn(p, b)])

\* The number of pending calls for the cache key k.
PendingFor(k) == PendingIn(calls, k)

(***************************************************************************)
(* C11 as claimed  Deduplication under overlap: a call that starts while   *)
(* an earlier network call for the same cache key is still pending (the    *)
(* earlier call is the operation just before it, so that no clearCache,    *)
(* eviction or expiry lies in between) issues no second network call for   *)
(* that key.                                                               *)
(***************************************************************************)
C11_DedupUnderOverlap ==
    [][(IsFetchStart /\ last.op = "fetch" /\ last.net /\ last'.key = last.key
                     /\ PendingFor(last.key) >= 1) =>
        ~last'.net]_vars

(***************************************************************************)
(* C11 as amended  No network call is issued for a cache key while a       *)
(* result for it is stored and within its ttl: every call that goes to     *)
(* the network starts when no such result is stored, issues exactly one    *)
(* network call, and a call still pending for a key whose result is        *)
(* stored and fresh started before that result was stored.  Calls that     *)
(* start while a network call for their key is pending each issue their    *)
(* own network call.                                                       *)
(***************************************************************************)
C11_NoCallWhileStored ==
    /\ [](\A p \in BagToSet(calls) : MemoFresh(p.cacheKey, now) => p.sawStore)
    /\ [][(IsFetchStart /\ last'.net) =>
              /\ ~MemoFresh(last'.key, now)
              /\ PendingIn(calls', last'.key) = PendingIn(calls, last'.key) + 1
              /\ BagCardinality(calls') = BagCardinality(calls) + 1]_vars

\* A fetch has just gone to the network while another network call for the
\* same cache key was pending: two calls for the key are outstanding.
C11_Witness ==
    /\ last.op = "fetch"
    /\ last.net
    /\ PendingFor(last.key) >= 2

(***************************************************************************)
(* Cache-key construction on its own: two requests are drawn, and the keys *)
(* fetchFile / fetchImages build for them are computed (NoKey for a        *)
(* request that throws before its key is built).                           *)
(***************************************************************************)
\* The requests compared: file keys and node ids with and without the
\* separators ':' and ',', node ids in both orders, formats and scales
\* given and omitted (scales in tenths).
KeyRequests ==
    {[kind |-> "file", fileKey |-> fk, nodeIds |-> << >>, format |-> Undefined, scale |-> 0]
        : fk \in {Undefined, "F1", "F", "F:1"}}
    \cup
    {[kind |-> "images", fileKey |-> fk, nodeIds |-> ids, format |-> f, scale |-> sc]
        : fk \in {Undefined, "F1", "F", "F:1"},
          ids \in {<<"2">>, <<"1:2">>, <<"1:2", "3">>, <<"3", "1:2">>, <<"1:2,3">>},
          f \in {Undefined, "png", "svg"},
          sc \in {0, 5, 10}}

\* The cache key the call builds, NoKey when it throws before building one.
KeyBuilt(r) == IF ArgError(r) = "" THEN CacheKeyOf(r) ELSE NoKey

InitKeys ==
    /\ Loaded
    /\ pair \in {[a |-> ra, b |-> rb, keyA |-> NoKey, keyB |-> NoKey, computed |-> FALSE]
                    : ra \in KeyRequests, rb \in KeyRequests}
    /\ http = NoHttp
    /\ shell = NoShell

\* Both calls build their cache keys.
ComputeKeys ==
    /\ ~pair.computed
    /\ pair' = [pair EXCEPT !.keyA = KeyBuilt(pair.a), !.keyB = KeyBuilt(pair.b),
                            !.computed = TRUE]
    /\ UNCHANGED <<cache, hits, misses, now, gets, last, serviceVars, http, shell>>

NextKeys == ComputeKeys

SpecKeys == InitKeys /\ [][NextKeys]_vars

\* The set of the elements of a sequence.
Range(q) == {q[i] : i \in 1..Len(q)}

\* Both keys of the pair were built.
BothBuilt == pair.computed /\ pair.keyA # NoKey /\ pair.keyB # NoKey

(***************************************************************************)
(* C12  Cache keys are injective: two requests that differ in the kind of  *)
(* call, the file key, the node-id list, the effective format or the       *)
(* effective scale get different cache keys.  (Stated as the claim states  *)
(* it; the code joins the parts with ':' and ',' without escaping them.)   *)
(***************************************************************************)
C12_KeysInjective ==
    (BothBuilt /\ \/ pair.a.kind # pair.b.kind
                  \/ FileKeyOf(pair.a) # FileKeyOf(pair.b)
                  \/ pair.a.nodeIds # pair.b.nodeIds
                  \/ (pair.a.kind = "images" /\ FormatOf(pair.a) # FormatOf(pair.b))
                  \/ (pair.a.kind = "images" /\ ScaleOf(pair.a) # ScaleOf(pair.b)))
        => pair.keyA # pair.keyB

(***************************************************************************)
(* C13  Logically identical requests share a key: two fetchImages calls    *)
(* for the same file, the same set of node ids, the same effective format  *)
(* and the same effective scale get the same cache key, whatever the       *)
(* order of the node ids.  (Stated as the claim states it; the code joins  *)
(* the node ids in the order given.)                                       *)
(***************************************************************************)
C13_SameRequestSameKey ==
    (BothBuilt /\ pair.a.kind = "images" /\ pair.b.kind = "images"
               /\ FileKeyOf(pair.a) = FileKeyOf(pair.b)
               /\ Range(pair.a.nodeIds) = Range(pair.b.nodeIds)
               /\ FormatOf(pair.a) = FormatOf(pair.b)
               /\ ScaleOf(pair.a) = ScaleOf(pair.b))
        => pair.keyA = pair.keyB

(***************************************************************************)
(* The empty string as a key.                                              *)
(***************************************************************************)
\* A non-empty key that no operation uses.
UnusedKey == "z"

\* The key k with the empty string replaced by the unused key.
Rename(k) == IF k = "" THEN UnusedKey ELSE k

\* The map c with the empty string replaced by the unused key.
RenameCache(c) == [i \in 1..Len(c) |-> [c[i] EXCEPT !.key = Rename(c[i].key)]]

(***************************************************************************)
(* C14  The empty string is an ordinary key: every operation does to the   *)
(* cache what it does when the empty string is replaced by an unused       *)
(* non-empty key (same map up to the renaming, same return values, sizes   *)
(* and counters); in particular the entry under the empty string is        *)
(* evicted when it is the first one of a full cache and a new key is set.  *)
(* (Stated as the claim states it.)                                        *)
(***************************************************************************)
C14_EmptyKeyOrdinary ==
    [][/\ IsSet =>
              CacheSet(RenameCache(cache), Rename(last'.key), last'.data, now)
                  = RenameCache(cache')
       /\ IsGet =>
              LET g == CacheGet(RenameCache(cache), hits, misses, Rename(last'.key), now)
              IN  /\ g.ret = last'.ret
                  /\ g.cache = RenameCache(cache')
                  /\ g.hits = hits'
                  /\ g.misses = misses'
       /\ IsGetStats => CacheStats(RenameCache(cache), hits, misses) = last'.stats
       /\ (IsSet /\ CacheFull(cache, last'.key) /\ MapFirstKey(cache) = "") =>
              ~MapHas(cache', "")]_vars

\* The step is a clear that changed something.
IsClear == last' # last /\ last'.op = "clear"

(***************************************************************************)
(* C15  Counters are monotonic between clears: across get, set and         *)
(* getStats neither hits nor misses decreases; set and getStats leave      *)
(* both unchanged; only clear lowers them, and it sets both to zero.       *)
(***************************************************************************)
C15_CountersMonotonic ==
    [][/\ (IsGet \/ IsSet \/ IsGetStats) => hits' >= hits /\ misses' >= misses
       /\ (IsSet \/ IsGetStats) => hits' = hits /\ misses' = misses
       /\ (hits' < hits \/ misses' < misses) =>
              IsClear /\ hits' = 0 /\ misses' = 0]_vars

\* A clear has just lowered both counters, each at least one, to zero.
C15_Witness ==
    /\ last.op = "clear"
    /\ last.stats.hits >= 1
    /\ last.stats.misses >= 1
    /\ hits = 0
    /\ misses = 0

\* The keys the step from map c to map d removed, k aside.
RemovedKeys(c, d, k) == {c[i].key : i \in 1..Len(c)} \ ({d[j].key : j \in 1..Len(d)} \cup {k})

(***************************************************************************)
(* C20  set evicts exactly when needed: set(k, v) removes an entry other   *)
(* than k if and only if k is absent and the size is at least maxSize      *)
(* before the call, and then exactly one; set on a present key removes     *)
(* no entry and leaves the size unchanged; after every set, get(k) at the  *)
(* same clock value returns v.  (Stated as the claim states it.)           *)
(***************************************************************************)
C20_SetEvictsExactlyWhenNeeded ==
    [][IsSet =>
        LET k == last'.key
            removed == RemovedKeys(cache, cache', k)
        IN  /\ (removed # {}) <=> (~MapHas(cache, k) /\ Len(cache) >= CACHE_MAX_SIZE)
            /\ removed # {} => Cardinality(removed) = 1
            /\ MapHas(cache, k) => removed = {} /\ Len(cache') = Len(cache)
            /\ CacheGet(cache', hits', misses', k, now).ret = last'.data]_vars

(***************************************************************************)
(* GET /api/figma/preview (app/api/figma/preview/route.ts).  One action    *)
(* is one request handled from the first statement to the response: the    *)
(* query parsing and validation, fetchImage (fetchImages with the one node *)
(* id: the cache lookup and, on a miss, the call of the Figma API, whose   *)
(* outcome is an input of the action), and the catch block.                *)
(***************************************************************************)
\* A query parameter that is given and not empty: searchParams.get returns
\* null for a missing parameter, and both null and "" are falsy.
Present(p) == p # Null /\ p # ""

\* The query strings tried.
Queries ==
    {[nodeId |-> n, fileKey |-> fk, format |-> f, scale |-> sc]
        : n \in {Null, "", "1:2"},
          fk \in {Null, "F1"},
          f \in {Null, "", "svg", "gif"},
          sc \in {Null, "", "0", "0.5", "4", "4.5", "abc", "2abc"}}

\* The i-th character of s.
Char(s, i) == SubSeq(s, i, i)

IsDigit(c) == c \in {"0", "1", "2", "3", "4", "5", "6", "7", "8", "9"}

DigitValue(c) ==
    CASE c = "0" -> 0 [] c = "1" -> 1 [] c = "2" -> 2 [] c = "3" -> 3 [] c = "4" -> 4
      [] c = "5" -> 5 [] c = "6" -> 6 [] c = "7" -> 7 [] c = "8" -> 8 [] c = "9" -> 9

\* The number of digits of s from position i on.
RECURSIVE DigitRun(_, _)
DigitRun(s, i) == IF i <= Len(s) /\ IsDigit(Char(s, i)) THEN 1 + DigitRun(s, i + 1) ELSE 0

\* The value of the n digits of s from position i on.
RECURSIVE DigitsToInt(_, _, _)
DigitsToInt(s, i, n) ==
    IF n = 0 THEN 0 ELSE DigitsToInt(s, i, n - 1) * 10 + DigitValue(Char(s, i + n - 1))

\* parseFloat(s): the longest prefix of s that is a decimal literal (sign,
\* digits, point, digits), NaN when there is none; what follows the prefix
\* is ignored.  The number is held in tenths (one digit after the point);
\* consumed is the length of the prefix.  Exponents and leading white space
\* are not among the strings tried.
ParseFloat(s) ==
    LET signLen  == IF Len(s) >= 1 /\ Char(s, 1) \in {"-", "+"} THEN 1 ELSE 0
        first    == signLen + 1
        intLen   == DigitRun(s, first)
        hasPoint == first + intLen <= Len(s) /\ Char(s, first + intLen) = "."
        fracLen  == IF hasPoint THEN DigitRun(s, first + intLen + 1) ELSE 0
        tenths   == DigitsToInt(s, first, intLen) * 10
                    + (IF fracLen >= 1 THEN DigitValue(Char(s, first + intLen + 1)) ELSE 0)
    IN  IF intLen = 0 /\ fracLen = 0
        THEN [nan |-> TRUE, tenths |-> 0, consumed |-> 0]
        ELSE [nan |-> FALSE,
              tenths |-> IF signLen = 1 /\ Char(s, 1) = "-" THEN 0 - tenths ELSE tenths,
              consumed |-> signLen + intLen + (IF hasPoint THEN 1 + fracLen ELSE 0)]

\* const scale = scaleParam ? parseFloat(scaleParam) : 1
ScaleParam(q) ==
    IF Present(q.scale) THEN ParseFloat(q.scale)
    ELSE [nan |-> FALSE, tenths |-> 10, consumed |-> 0]

\* const format = searchParams.get("format") || "png"
FormatParam(q) == IF Present(q.format) THEN q.format ELSE "png"

\* The three validations, in order: the error of the 400 response, "" when
\* the query passes.
ValidationError(q) ==
    IF ~Present(q.nodeId) THEN "Missing required parameter: nodeId"
    ELSE IF FormatParam(q) \notin {"png", "svg", "jpg"}
    THEN "Invalid format. Must be: png, svg, or jpg"
    ELSE IF ScaleParam(q).nan \/ ScaleParam(q).tenths <= 0 \/ ScaleParam(q).tenths > 40
    THEN "Invalid scale. Must be a number between 0 and 4"
    ELSE ""

\* fetchImage(nodeId, {fileKey, format, scale}) calls fetchImages([nodeId], options).
ImageRequest(q) ==
    [kind |-> "images",
     fileKey |-> IF Present(q.fileKey) THEN q.fileKey ELSE Undefined,
     nodeIds |-> <<q.nodeId>>,
     format |-> FormatParam(q),
     scale |-> ScaleParam(q).tenths]

\* An images map of the Figma API: a sequence of <<node id, url>> pairs.
\* images[nodeId] ?? null
ImageOf(images, id) ==
    IF \E i \in 1..Len(images) : images[i][1] = id
    THEN images[CHOOSE i \in 1..Len(images) : images[i][1] = id][2]
    ELSE Null

\* What the Figma API can do with a getImages call for node id: answer with
\* an images map (a url for the node, null for a node it cannot render, no
\* entry for the node), answer without images, or reject.  A rejection is an
\* error object of the HTTP client: a message, and the status of the response
\* when there is one (0 when there is none).
ApiErrors ==
    {[message |-> "Request failed with status code 403", status |-> 403],
     [message |-> "Request failed with status code 404", status |-> 404],
     [message |-> "Request failed with status code 429", status |-> 429],
     [message |-> "Request failed with status code 500", status |-> 500],
     [message |-> "Network Error", status |-> 0],
     [message |-> Undefined, status |-> 429],
     [message |-> Undefined, status |-> 0],
     [message |-> "Invalid token, check FIGMA_API_TOKEN", status |-> 403],
     [message |-> "FIGMA_FILE_KEY does not name a file", status |-> 404]}

ApiOutcomes(id) ==
    {[kind |-> "images", images |-> m, error |-> NoError]
        : m \in {<< <<id, "https://cdn.example/i1">> >>, << <<id, Null>> >>, << >>}}
    \cup {[kind |-> "noImages", images |-> << >>, error |-> NoError]}
    \cup {[kind |-> "reject", images |-> << >>, error |-> e] : e \in ApiErrors}

\* String.prototype.includes
Includes(s, w) == \E i \in 1..(Len(s) - Len(w) + 1) : SubSeq(s, i, i + Len(w) - 1) = w

\* error.message?.includes(w)
MessageIncludes(e, w) == e.message # Undefined /\ Includes(e.message, w)

\* NextResponse.json({error, details}, {status, headers})
JsonResponse(status, error, details, retryAfter) ==
    [status |-> status, error |-> error, details |-> details, location |-> "",
     retryAfter |-> retryAfter, cacheControl |-> ""]

CACHE_HEADERS == "public, max-age=86400, s-maxage=86400, stale-while-revalidate=604800"

\* NextResponse.redirect(imageUrl, {status: 302, headers: CACHE_HEADERS})
RedirectResponse(url) ==
    [status |-> 302, error |-> "", details |-> "", location |-> url,
     retryAfter |-> "", cacheControl |-> CACHE_HEADERS]

\* Mutant of ErrorResponse: the status of the upstream response is looked at
\* before the configuration messages.
ErrorResponseStatusFirst(e) ==
    IF e.status = 403
    THEN JsonResponse(403, "Access denied",
                      "Figma API token does not have permission to access this file", "")
    ELSE IF e.status = 404
    THEN JsonResponse(404, "File or node not found",
                      "The specified file or node does not exist or is not accessible", "")
    ELSE IF e.status = 429
    THEN JsonResponse(429, "Rate limit exceeded",
                      "Too many requests to Figma API. Please try again later.", "60")
    ELSE IF MessageIncludes(e, "FIGMA_API_TOKEN")
    THEN JsonResponse(500, "Server configuration error", "Figma API token not configured", "")
    ELSE IF MessageIncludes(e, "FIGMA_FILE_KEY")
    THEN JsonResponse(400, "Missing file key",
                      "No fileKey provided and FIGMA_FILE_KEY environment variable not set", "")
    ELSE JsonResponse(500, "Failed to fetch image",
                      IF Truthy(e.message) THEN e.message ELSE "Unknown error", "")

\* The catch block: the response for the error e.
ErrorResponse(e) ==
    IF MessageIncludes(e, "FIGMA_API_TOKEN")
    THEN JsonResponse(500, "Server configuration error", "Figma API token not configured", "")
    ELSE IF MessageIncludes(e, "FIGMA_FILE_KEY")
    THEN JsonResponse(400, "Missing file key",
                      "No fileKey provided and FIGMA_FILE_KEY environment variable not set", "")
    ELSE IF e.status = 403
    THEN JsonResponse(403, "Access denied",
                      "Figma API token does not have permission to access this file", "")
    ELSE IF e.status = 404
    THEN JsonResponse(404, "File or node not found",
                      "The specified file or node does not exist or is not accessible", "")
    ELSE IF e.status = 429
    THEN JsonResponse(429, "Rate limit exceeded",
                      "Too many requests to Figma API. Please try again later.", "60")
    ELSE JsonResponse(500, "Failed to fetch image",
                      IF Truthy(e.message) THEN e.message ELSE "Unknown error", "")

\* An error thrown by the service itself: a message, no response.
ServiceError(msg) == [message |-> msg, status |-> 0]

\* Mutant of FetchImage: getFigmaClient() is called before the cache is looked up.
FetchImageClientFirst(r, out) ==
    LET id == r.nodeIds[1]
        ck == CacheKeyOf(r)
        g  == CacheGet(cache, hits, misses, ck, now)
    IN  IF ArgError(r) # ""
        THEN [thrown |-> ServiceError(ArgError(r)), url |-> Null, cache |-> cache,
              hits |-> hits, misses |-> misses, client |-> clientInstance, looked |-> FALSE]
        ELSE IF ~ClientAvailable
        THEN [thrown |-> ServiceError(ERR_TOKEN), url |-> Null, cache |-> cache,
              hits |-> hits, misses |-> misses, client |-> clientInstance, looked |-> FALSE]
        ELSE IF g.ret # Null
        THEN [thrown |-> NoError, url |-> ImageOf(g.ret, id), cache |-> g.cache,
              hits |-> g.hits, misses |-> g.misses, client |-> TRUE, looked |-> TRUE]
        ELSE IF out.kind = "images"
        THEN [thrown |-> NoError, url |-> ImageOf(out.images, id),
              cache |-> FetchStore(g.cache, ck, out.images, now),
              hits |-> g.hits, misses |-> g.misses, client |-> TRUE, looked |-> TRUE]
        ELSE [thrown |-> IF out.kind = "noImages" THEN ServiceError(ERR_NO_IMAGES)
                         ELSE out.error,
              url |-> Null, cache |-> FetchCatch(g.cache, ck, now),
              hits |-> g.hits, misses |-> g.misses, client |-> TRUE, looked |-> TRUE]

\* Mutant of FetchImage: an images map without a url for the node is returned
\* and not stored.
FetchImageSkipsNullUrl(r, out) ==
    LET id == r.nodeIds[1]
        ck == CacheKeyOf(r)
        g  == CacheGet(cache, hits, misses, ck, now)
    IN  IF ArgError(r) # ""
        THEN [thrown |-> ServiceError(ArgError(r)), url |-> Null, cache |-> cache,
              hits |-> hits, misses |-> misses, client |-> clientInstance, looked |-> FALSE]
        ELSE IF g.ret # Null
        THEN [thrown |-> NoError, url |-> ImageOf(g.ret, id), cache |-> g.cache,
              hits |-> g.hits, misses |-> g.misses, client |-> clientInstance, looked |-> TRUE]
        ELSE IF ~ClientAvailable
        THEN [thrown |-> ServiceError(ERR_TOKEN), url |-> Null, cache |-> g.cache,
              hits |-> g.hits, misses |-> g.misses, client |-> clientInstance, looked |-> TRUE]
        ELSE IF out.kind = "images"
        THEN [thrown |-> NoError, url |-> ImageOf(out.images, id),
              cache |-> IF ImageOf(out.images, id) = Null THEN g.cache
                        ELSE FetchStore(g.cache, ck, out.images, now),
              hits |-> g.hits, misses |-> g.misses, client |-> TRUE, looked |-> TRUE]
        ELSE [thrown |-> IF out.kind = "noImages" THEN ServiceError(ERR_NO_IMAGES)
                         ELSE out.error,
              url |-> Null, cache |-> FetchCatch(g.cache, ck, now),
              hits |-> g.hits, misses |-> g.misses, client |-> TRUE, looked |-> TRUE]

\* fetchImage for the request r when the Figma API, if it is called, does
\* out: the error thrown (NoError if none), the url returned, and the cache,
\* the counters and the client afterwards; looked says whether the cache was
\* looked up.
FetchImage(r, out) ==
    LET id == r.nodeIds[1]
        ck == CacheKeyOf(r)
        g  == CacheGet(cache, hits, misses, ck, now)
    IN  IF ArgError(r) # ""
        THEN [thrown |-> ServiceError(ArgError(r)), url |-> Null, cache |-> cache,
              hits |-> hits, misses |-> misses, client |-> clientInstance, looked |-> FALSE]
        ELSE IF g.ret # Null
        THEN [thrown |-> NoError, url |-> ImageOf(g.ret, id), cache |-> g.cache,
              hits |-> g.hits, misses |-> g.misses, client |-> clientInstance, looked |-> TRUE]
        ELSE IF ~ClientAvailable
        THEN [thrown |-> ServiceError(ERR_TOKEN), url |-> Null, cache |-> g.cache,
              hits |-> g.hits, misses |-> g.misses, client |-> clientInstance, looked |-> TRUE]
        ELSE IF out.kind = "images"
        THEN [thrown |-> NoError, url |-> ImageOf(out.images, id),
              cache |-> FetchStore(g.cache, ck, out.images, now),
              hits |-> g.hits, misses |-> g.misses, client |-> TRUE, looked |-> TRUE]
        ELSE [thrown |-> IF out.kind = "noImages" THEN ServiceError(ERR_NO_IMAGES)
                         ELSE out.error,
              url |-> Null, cache |-> FetchCatch(g.cache, ck, now),
              hits |-> g.hits, misses |-> g.misses, client |-> TRUE, looked |-> TRUE]

\* Mutant of ResponseAfterFetch: scales above 2 are rejected, after fetchImage
\* has run.
ResponseAfterFetchValidatesLate(q, f) ==
    IF ScaleParam(q).tenths > 20
    THEN JsonResponse(400, "Invalid scale. Must be a number between 0 and 4", "", "")
    ELSE IF f.thrown # NoError THEN ErrorResponse(f.thrown)
    ELSE IF ~Truthy(f.url) \/ f.url = Null
    THEN JsonResponse(404, "Image not found",
                      "Figma API did not return an image URL for the specified node", "")
    ELSE RedirectResponse(f.url)

\* The response to a query that passed the validations, given what fetchImage did.
ResponseAfterFetch(q, f) ==
    IF f.thrown # NoError THEN ErrorResponse(f.thrown)
    ELSE IF ~Truthy(f.url) \/ f.url = Null
    THEN JsonResponse(404, "Image not found",
                      "Figma API did not return an image URL for the specified node", "")
    ELSE RedirectResponse(f.url)

\* The request reaches api.getImages: it passes the validations and the
\* argument checks, misses the cache, and a client is available.
ApiCalled(q) ==
    /\ ValidationError(q) = ""
    /\ ArgError(ImageRequest(q)) = ""
    /\ CacheGet(cache, hits, misses, CacheKeyOf(ImageRequest(q)), now).ret = Null
    /\ ClientAvailable

\* The Figma API is not called.
NoOutcome == [kind |-> "none", images |-> << >>, error |-> NoError]

\* export async function GET(request), for the query q; out is what the
\* Figma API does if the request reaches it.
PreviewGET(q) ==
    /\ ~http.handled
    /\ gets < MaxGets
    /\ IF ValidationError(q) # ""
       THEN /\ http' = [NoHttp EXCEPT !.handled = TRUE, !.query = q,
                                      !.response = JsonResponse(400, ValidationError(q), "", "")]
            /\ UNCHANGED <<cache, hits, misses, clientInstance, gets>>
       ELSE \E out \in (IF ApiCalled(q) THEN ApiOutcomes(q.nodeId) ELSE {NoOutcome}) :
            LET r == ImageRequest(q)
                f == FetchImage(r, out)
            IN  /\ http' = [handled |-> TRUE, query |-> q, request |-> r,
                            thrown |-> f.thrown, url |-> f.url,
                            response |-> ResponseAfterFetch(q, f)]
                /\ cache' = f.cache
                /\ hits' = f.hits
                /\ misses' = f.misses
                /\ clientInstance' = f.client
                /\ gets' = IF f.looked THEN gets + 1 ELSE gets
    /\ UNCHANGED <<now, envToken, envFileKey, calls, started, memo, failed, last, pair, shell>>

\* The response has been sent: the handler is ready for the next request
\* (requests are handled one at a time here).
Sent ==
    /\ http.handled
    /\ http' = NoHttp
    /\ UNCHANGED <<cache, hits, misses, now, gets, last, serviceVars, pair, shell>>

NextRoute ==
    \/ \E q \in Queries : PreviewGET(q)
    \/ Sent

SpecRoute == Init /\ [][NextRoute]_vars

\* The number the whole string s denotes, NaN when s is not a decimal literal
\* from its first to its last character.
NumberOf(s) ==
    IF ParseFloat(s).consumed = Len(s) THEN ParseFloat(s)
    ELSE [nan |-> TRUE, tenths |-> 0, consumed |-> 0]

\* s is a number in (0, 4].
ScaleInRange(s) == ~NumberOf(s).nan /\ NumberOf(s).tenths > 0 /\ NumberOf(s).tenths <= 40

\* The query q is one the claim calls valid.
ValidQuery(q) ==
    /\ Present(q.nodeId)
    /\ Present(q.format) => q.format \in {"png", "svg", "jpg"}
    /\ Present(q.scale) => ScaleInRange(q.scale)

(***************************************************************************)
(* C16  Preview route validation: the response is 400 when nodeId is       *)
(* missing or empty, 400 when a format is given that is not png, svg or    *)
(* jpg, 400 when a scale is given that is not a number in (0, 4]; an       *)
(* omitted format or scale defaults to png and 1; a valid request whose    *)
(* image url comes back is answered with a 302 redirect to that url, and   *)
(* one whose url is null with 404.  (Stated as the claim states it, an     *)
(* empty format or scale counting as omitted.)                             *)
(***************************************************************************)
C16_Validation ==
    http.handled =>
        LET q == http.query
        IN  /\ ~Present(q.nodeId) => http.response.status = 400
            /\ (Present(q.format) /\ q.format \notin {"png", "svg", "jpg"}) =>
                   http.response.status = 400
            /\ (Present(q.scale) /\ ~ScaleInRange(q.scale)) => http.response.status = 400
            /\ ValidQuery(q) =>
                   /\ http.request.format = (IF Present(q.format) THEN q.format ELSE "png")
                   /\ http.request.scale =
                          (IF Present(q.scale) THEN NumberOf(q.scale).tenths ELSE 10)
                   /\ (http.thrown = NoError /\ http.url # Null) =>
                          /\ http.response.status = 302
                          /\ http.response.location = http.url
                   /\ (http.thrown = NoError /\ http.url = Null) =>
                          http.response.status = 404

(***************************************************************************)
(* C17  Preview route error mapping is total: every error thrown while a   *)
(* request is handled is turned into exactly one JSON response: 500 for a  *)
(* missing token, 400 for a missing file key, 403 / 404 / 429 for an       *)
(* upstream response with that status (429 with Retry-After: 60), 500 for  *)
(* everything else; the checks of the configuration messages come before   *)
(* the checks of the upstream status.                                      *)
(***************************************************************************)
C17_ErrorMappingTotal ==
    (http.handled /\ http.thrown # NoError) =>
        LET e  == http.thrown
            rs == http.response
        IN  /\ rs.error # ""
            /\ rs.location = ""
            /\ rs.status =
                   (IF MessageIncludes(e, "FIGMA_API_TOKEN") THEN 500
                    ELSE IF MessageIncludes(e, "FIGMA_FILE_KEY") THEN 400
                    ELSE IF e.status \in {403, 404, 429} THEN e.status
                    ELSE 500)
            /\ e.message = ERR_TOKEN => rs.status = 500
            /\ e.message = ERR_FILE_KEY => rs.status = 400
            /\ rs.retryAfter = (IF rs.status = 429 THEN "60" ELSE "")

\* The Figma API has just rejected a call with a 429 response, and the route
\* answered 429 with Retry-After: 60.
C17_Witness ==
    /\ http.handled
    /\ http.thrown.status = 429
    /\ http.response.status = 429
    /\ http.response.retryAfter = "60"

(***************************************************************************)
(* The CI scripts policy-check.sh and cost-analysis.sh (bash, both under   *)
(* set -euo pipefail).  One action is one run of a script, from its first  *)
(* line to its exit; the arguments and what the tools it calls do (az, jq, *)
(* azure-cost) are inputs.  RESOURCE_GROUP and SUBSCRIPTION_ID are not set *)
(* in the environment.                                                     *)
(***************************************************************************)
\* The argument lists tried.
ArgLists ==
    {<< >>,
     <<"-h">>,
     <<"rg-test", "sub-1">>,
     <<"--resource-group", "rg-test">>,
     <<"--subscription-id", "sub-1">>,
     <<"--resource-group", "rg-test", "--subscription-id", "sub-1">>,
     <<"--subscription-id", "sub-1", "--resource-group", "rg-test">>,
     <<"--resource-group", "rg-test", "--subscription-id">>,
     <<"--resource-group", "", "--subscription-id", "sub-1">>,
     <<"--resource-group", "rg-test", "--subscription-id", "sub-1", "--summary-path", "s.md">>,
     <<"--resource-group", "rg-test", "--subscription-id", "sub-1", "--timeframe", "Custom">>,
     <<"--resource-group", "rg-test", "--subscription-id", "sub-1", "--help">>}

\* The options that take a value.
PolicyCheckOptions == {"--resource-group", "--subscription-id", "--summary-path"}

CostAnalysisOptions == PolicyCheckOptions \cup {"--timeframe"}

\* The variables the argument loop sets; exit is -1 while the script runs on.
NoOpts == [rg |-> "", sub |-> "", exit |-> -1]

\* while [[ $# -gt 0 ]]; do case "$1" in ... esac; done
\* An option without its value stops the script with status 1 ("$2: unbound
\* variable" under set -u).
RECURSIVE ParseArgs(_, _, _)
ParseArgs(args, options, o) ==
    IF Len(args) = 0 THEN o
    ELSE IF args[1] \in options
    THEN IF Len(args) < 2 THEN [o EXCEPT !.exit = 1]
         ELSE ParseArgs(SubSeq(args, 3, Len(args)), options,
                        IF args[1] = "--resource-group" THEN [o EXCEPT !.rg = args[2]]
                        ELSE IF args[1] = "--subscription-id" THEN [o EXCEPT !.sub = args[2]]
                        ELSE o)
    ELSE IF args[1] \in {"-h", "--help"} THEN [o EXCEPT !.exit = 0]
    ELSE [o EXCEPT !.exit = 1]

\* if [ -z "${RESOURCE_GROUP:-}" ] || [ -z "${SUBSCRIPTION_ID:-}" ]
MissingRequired(o) == o.rg = "" \/ o.sub = ""

\* jq '[.[] | select(.complianceState == "NonCompliant")] | length'
RECURSIVE NonCompliantCount(_)
NonCompliantCount(states) ==
    IF Len(states) = 0 THEN 0
    ELSE (IF states[1] = "NonCompliant" THEN 1 ELSE 0) + NonCompliantCount(Tail(states))

\* What `az policy state list` can print: the compliance states of up to
\* MaxResources resources.
RECURSIVE StateLists(_)
StateLists(n) ==
    IF n = 0 THEN {<< >>}
    ELSE StateLists(n - 1)
         \cup {Append(l, c) : l \in {m \in StateLists(n - 1) : Len(m) = n - 1},
                              c \in {"Compliant", "NonCompliant"}}

\* The exit status of policy-check.sh and the count it reports (-1 when it
\* does not get to counting).  A jq that cannot be run ends the script at the
\* first $(... | jq ...) with status 127 (set -e, pipefail).
PolicyCheckRun(args, rgExists, states, jq) ==
    LET o == ParseArgs(args, PolicyCheckOptions, NoOpts)
    IN  IF o.exit >= 0 THEN [exit |-> o.exit, nonCompliant |-> -1]
        ELSE IF MissingRequired(o) THEN [exit |-> 1, nonCompliant |-> -1]
        ELSE IF ~rgExists THEN [exit |-> 0, nonCompliant |-> -1]
        ELSE IF jq # "ok" THEN [exit |-> 127, nonCompliant |-> -1]
        ELSE [exit |-> 0, nonCompliant |-> NonCompliantCount(states)]

\* What azure-cost can print.
CostOutputs == {"{\"totalCost\": 250}", "{}", "Error: Unable to fetch cost data"}

\* echo "$ACTUAL_COST_OUTPUT" | jq -e .   succeeds: the output is JSON that is
\* neither null nor false, and jq can be run.
JqAccepts(costOutput, jq) == jq = "ok" /\ costOutput \in {"{\"totalCost\": 250}", "{}"}

\* jq -r '.totalCost // .Total // "N/A"'
TotalCost(costOutput) == IF costOutput = "{\"totalCost\": 250}" THEN "250" ELSE "N/A"

\* The exit status of cost-analysis.sh and the actual_cost it reports ("" when
\* it does not get that far).  azure-cost is "missing" (not on PATH), "fails"
\* (exits non-zero) or "ok".  The script runs azure-cost under set +e and
\* jq inside conditions, so none of them ends the script: it goes on to the
\* summary and to its last command, an echo.
CostAnalysisRun(args, azureCost, costOutput, jq) ==
    LET o == ParseArgs(args, CostAnalysisOptions, NoOpts)
        cmdExit == IF azureCost = "ok" THEN 0 ELSE 1
        cost == IF cmdExit = 0 /\ JqAccepts(costOutput, jq) THEN TotalCost(costOutput)
                ELSE "N/A"
    IN  IF o.exit >= 0 THEN [exit |-> o.exit, actualCost |-> ""]
        ELSE IF MissingRequired(o) THEN [exit |-> 1, actualCost |-> ""]
        ELSE IF azureCost = "missing" THEN [exit |-> 0, actualCost |-> "Tool not available"]
        ELSE IF cost \in {"N/A", "null"} THEN [exit |-> 0, actualCost |-> "Not yet available"]
        ELSE [exit |-> 0, actualCost |-> cost]

\* A run of policy-check.sh.
RunPolicyCheck(args, rgExists, states, jq) ==
    /\ shell' = [NoShell EXCEPT !.script = "policy-check.sh", !.args = args,
                                !.rgExists = rgExists, !.states = states, !.jq = jq,
                                !.nonCompliant =
                                    PolicyCheckRun(args, rgExists, states, jq).nonCompliant,
                                !.exit = PolicyCheckRun(args, rgExists, states, jq).exit]
    /\ UNCHANGED <<cache, hits, misses, now, gets, last, serviceVars, pair, http>>

\* A run of cost-analysis.sh.
RunCostAnalysis(args, azureCost, costOutput, jq) ==
    /\ shell' = [NoShell EXCEPT !.script = "cost-analysis.sh", !.args = args,
                                !.azureCost = azureCost, !.costOutput = costOutput, !.jq = jq,
                                !.actualCost =
                                    CostAnalysisRun(args, azureCost, costOutput, jq).actualCost,
                                !.exit = CostAnalysisRun(args, azureCost, costOutput, jq).exit]
    /\ UNCHANGED <<cache, hits, misses, now, gets, last, serviceVars, pair, http>>

NextScripts ==
    \/ \E args \in ArgLists, rgExists \in BOOLEAN, states \in StateLists(MaxResources),
          jq \in {"ok", "missing"} : RunPolicyCheck(args, rgExists, states, jq)
    \/ \E args \in ArgLists, azureCost \in {"ok", "fails", "missing"},
          costOutput \in CostOutputs,
          jq \in {"ok", "missing"} : RunCostAnalysis(args, azureCost, costOutput, jq)

SpecScripts == InitCache /\ [][NextScripts]_vars

\* The script was given both required arguments, and nothing that ends it
\* while it reads its arguments.
Accepted(args, options) ==
    LET o == ParseArgs(args, options, NoOpts) IN o.exit < 0 /\ ~MissingRequired(o)

(***************************************************************************)
(* C18  policy-check.sh exit codes: 0 when every resource is compliant or  *)
(* the run is informational (help, or the resource group does not exist    *)
(* yet), 1 on a script error or invalid or missing parameters, 2 when at   *)
(* least one non-compliant resource is found.  (Stated as the claim        *)
(* states it.)                                                             *)
(***************************************************************************)
C18_PolicyCheckExitCodes ==
    shell.script = "policy-check.sh" =>
        LET o == ParseArgs(shell.args, PolicyCheckOptions, NoOpts)
        IN  /\ (o.exit = 1 \/ (o.exit < 0 /\ MissingRequired(o))) => shell.exit = 1
            /\ o.exit = 0 => shell.exit = 0
            /\ (Accepted(shell.args, PolicyCheckOptions) /\ ~shell.rgExists) => shell.exit = 0
            /\ (Accepted(shell.args, PolicyCheckOptions) /\ shell.rgExists
                    /\ shell.jq = "ok") =>
                   shell.exit = (IF NonCompliantCount(shell.states) >= 1 THEN 2 ELSE 0)
            /\ (Accepted(shell.args, PolicyCheckOptions) /\ shell.rgExists
                    /\ shell.jq # "ok") => shell.exit = 1

(***************************************************************************)
(* C19  cost-analysis.sh fails loudly on tool failure: given both          *)
(* required arguments, when azure-cost is not on PATH, or is found and     *)
(* exits with a non-zero status, the script ends with a non-zero exit      *)
(* status.  (Stated as the claim states it.)                               *)
(***************************************************************************)
C19_CostAnalysisFailsLoudly ==
    (shell.script = "cost-analysis.sh" /\ Accepted(shell.args, CostAnalysisOptions)
        /\ shell.azureCost \in {"missing", "fails"}) => shell.exit # 0

\* The map c without its i-th entry, the others in their order.
WithoutEntry(c, i) == SubSeq(c, 1, i - 1) \o SubSeq(c, i + 1, Len(c))

\* The entry for k is present in c and older than the ttl at clock value t.
Stale(c, k, t) == MapHas(c, k) /\ t - MapGet(c, k).timestamp > CACHE_TTL_MS

(***************************************************************************)
(* C21  Lazy expiry on access: a get(k) that finds an entry older than the *)
(* ttl removes exactly that entry (the size decreases by one, all other    *)
(* entries and their order are unchanged), increments misses by one,       *)
(* leaves hits unchanged and returns null; a second get(k) right after it  *)
(* (only time passing in between) is a plain miss on an absent key.        *)
(***************************************************************************)
C21_LazyExpiry ==
    [][/\ (IsGet /\ Stale(cache, last'.key, now)) =>
              /\ \E i \in 1..Len(cache) :
                     /\ cache[i].key = last'.key
                     /\ cache' = WithoutEntry(cache, i)
              /\ Len(cache') = Len(cache) - 1
              /\ misses' = misses + 1
              /\ hits' = hits
              /\ last'.ret = Null
       /\ (IsGet /\ last.op = "get" /\ last.age > CACHE_TTL_MS /\ last'.key = last.key) =>
              /\ ~MapHas(cache, last'.key)
              /\ cache' = cache
              /\ misses' = misses + 1
              /\ hits' = hits
              /\ last'.ret = Null
              /\ last'.age = -1]_vars

\* A get has just found the first entry of a full cache older than the ttl and
\* removed it: the other entry is left, and a second get can follow.
C21_Witness ==
    /\ last.op = "get"
    /\ last.age > CACHE_TTL_MS
    /\ last.ret = Null
    /\ Len(cache) = CACHE_MAX_SIZE - 1
    /\ ~MapHas(cache, last.key)
    /\ misses >= 1
    /\ gets < MaxGets

(***************************************************************************)
(* C22  Expired entries keep their slot until touched: an entry older than *)
(* the ttl leaves the map only by a get of its key, by a clear, or by a    *)
(* set of a new key into a full cache of which it is the first entry;      *)
(* getStats counts it in size; and a set of a new key into a full cache    *)
(* evicts the first-inserted entry, and only that one, whether it is fresh *)
(* or not and whether or not a later-inserted entry is expired.  (Stated   *)
(* as the claim states it.)                                                *)
(***************************************************************************)
C22_ExpiredKeepSlot ==
    [][/\ \A i \in 1..Len(cache) :
              (Stale(cache, cache[i].key, now) /\ ~MapHas(cache', cache[i].key)) =>
                  \/ IsGet /\ last'.key = cache[i].key
                  \/ IsClear
                  \/ IsSet /\ i = 1 /\ Len(cache) >= CACHE_MAX_SIZE
                           /\ ~MapHas(cache, last'.key)
       /\ IsGetStats => last'.stats.size = Len(cache)
       /\ (IsSet /\ Len(cache) >= CACHE_MAX_SIZE /\ ~MapHas(cache, last'.key)) =>
              /\ ~MapHas(cache', cache[1].key)
              /\ \A i \in 2..Len(cache) : \E j \in 1..Len(cache') : cache'[j] = cache[i]]_vars

(***************************************************************************)
(* C23  getStats is a pure read: a getStats (getCacheStats) leaves the     *)
(* map, with its order and every timestamp, and both counters unchanged,   *)
(* and it reports the counters, the size, and maxSize and the ttl as       *)
(* configured, whatever the operations before it.                          *)
(***************************************************************************)
C23_GetStatsPure ==
    [][IsGetStats =>
        /\ cache' = cache
        /\ hits' = hits
        /\ misses' = misses
        /\ now' = now
        /\ last'.stats.hits = hits
        /\ last'.stats.misses = misses
        /\ last'.stats.size = Len(cache)
        /\ last'.stats.maxSize = CACHE_MAX_SIZE
        /\ last'.stats.ttlMs = CACHE_TTL_MS]_vars

\* getStats has just run on a full cache that holds an expired entry, after
\* hits and misses were counted.
C23_Witness ==
    /\ last.op = "getStats"
    /\ last.stats.size = CACHE_MAX_SIZE
    /\ Len(cache) = CACHE_MAX_SIZE
    /\ hits >= 1
    /\ misses >= 1
    /\ \E i \in 1..Len(cache) : Stale(cache, cache[i].key, now)

(***************************************************************************)
(* C24  Cache invariants survive interleaved fetches: in every state       *)
(* reached by any interleaving of pending fetchFile / fetchImages calls    *)
(* (a lookup, an awaited network call, then a set) with clearCache calls,  *)
(* the cache holds at most CACHE_MAX_SIZE entries and hits + misses is the *)
(* number of lookups since the last clear.                                 *)
(***************************************************************************)
C24_InvariantsSurviveInterleaving ==
    /\ Len(cache) <= CACHE_MAX_SIZE
    /\ hits + misses = gets

\* A fetch has just stored its result into a full cache and evicted an entry,
\* with a single lookup counted since the last clearCache: the other entries
\* were stored by calls that were pending when it ran.
C24_Witness ==
    /\ last.op = "resolve"
    /\ last.evicted # NoKey
    /\ Len(cache) = CACHE_MAX_SIZE
    /\ gets = 1
    /\ hits + misses = 1

\* The step ends a pending call with its result stored.
IsResolve == BagCardinality(calls') = BagCardinality(calls) - 1 /\ last'.op = "resolve"

(***************************************************************************)
(* C25 as claimed  One lookup per request: every fetchFile call that       *)
(* resolves a file key and every fetchImages call with a non-empty node-id *)
(* list performs exactly one cache get, so that hits + misses grows by     *)
(* exactly one per such call, a call that fails for a missing token        *)
(* included (it has been counted as a miss); the number of successful      *)
(* network calls never exceeds misses.  (The cache keys held in memo are   *)
(* keys a network call succeeded for since the last clear, so there are    *)
(* at least as many successful network calls as such keys.)                *)
(***************************************************************************)
C25_OneLookupPerRequest ==
    /\ [][IsFetchStart =>
              \/ /\ gets' = gets + 1
                 /\ hits' + misses' = hits + misses + 1
                 /\ last'.err = ERR_TOKEN => misses' = misses + 1
              \/ \A r \in Requests :
                     ~(/\ r.kind = "file" => Truthy(FileKeyOf(r))
                       /\ r.kind = "images" => Len(r.nodeIds) > 0
                       /\ FetchStart(r))]_vars
    /\ [](Cardinality({k \in ServiceKeys : memo[k].at >= 0}) <= misses)

(***************************************************************************)
(* C25 as amended  Every fetchFile / fetchImages call that passes its      *)
(* argument checks (a non-empty node-id list for fetchImages, and a file   *)
(* key given or configured) performs exactly one cache get in its          *)
(* synchronous part, so that hits + misses grows by exactly one per such   *)
(* call.  A network call is issued, and the missing-token error thrown,    *)
(* only in a step that counts its call as a miss, so that every pending    *)
(* call has been counted by its own lookup; the completion or the failure  *)
(* of a pending call counts nothing more.                                  *)
(***************************************************************************)
C25_OneLookupPerCheckedRequest ==
    [][/\ IsFetchStart =>
              /\ \/ /\ gets' = gets + 1
                    /\ hits' + misses' = hits + misses + 1
                 \/ \A r \in Requests :
                        ~(/\ Truthy(FileKeyOf(r))
                          /\ r.kind = "images" => Len(r.nodeIds) > 0
                          /\ FetchStart(r))
              /\ (last'.net \/ last'.err = ERR_TOKEN) =>
                     /\ misses' = misses + 1
                     /\ hits' = hits
                     /\ gets' = gets + 1
              /\ last'.net <=> BagCardinality(calls') = BagCardinality(calls) + 1
       /\ (IsResolve \/ IsReject) =>
              gets' = gets /\ hits' = hits /\ misses' = misses]_vars

\* A pending call has just failed after another one succeeded: both were
\* counted as misses when they looked the cache up.
C25_Witness ==
    /\ last.op = "reject"
    /\ \E k \in ServiceKeys : memo[k].at >= 0
    /\ misses >= 2
    /\ hits + misses = gets

(***************************************************************************)
(* C26  Argument errors leave the cache untouched: fetchImages called with *)
(* an empty node-id list, and fetchFile / fetchImages called without a     *)
(* file key while FIGMA_FILE_KEY is not set, throw before any cache        *)
(* access: the map, hits and misses are unchanged, no lookup is counted,   *)
(* no client is created and no network call is issued.                     *)
(***************************************************************************)
C26_ArgumentErrorsLeaveCache ==
    [][IsFetchStart =>
          \A r \in Requests :
              (/\ \/ r.kind = "images" /\ Len(r.nodeIds) = 0
                  \/ ~Truthy(r.fileKey) /\ envFileKey = Undefined
               /\ FetchStart(r)) =>
                  /\ last'.err = (IF r.kind = "images" /\ Len(r.nodeIds) = 0
                                  THEN ERR_NODE_IDS ELSE ERR_FILE_KEY)
                  /\ cache' = cache
                  /\ hits' = hits
                  /\ misses' = misses
                  /\ gets' = gets
                  /\ calls' = calls
                  /\ clientInstance' = clientInstance
                  /\ ~last'.net]_vars

\* A call has just thrown an argument error while the cache held an entry and
\* had counted a hit and a miss.
C26_Witness ==
    /\ last.op = "fetch"
    /\ last.err \in {ERR_NODE_IDS, ERR_FILE_KEY}
    /\ Len(cache) >= 1
    /\ hits >= 1
    /\ misses >= 1

\* The step handles a request of the preview route.
IsHandled == ~http.handled /\ http'.handled

\* The step handles a request that passed the validations: fetchImage was called.
IsFetched == IsHandled /\ http'.request # NoRequest

C28_ClearDoesNotCancel ==
    [][/\ IsClear => cache' = << >> /\ calls' = calls
       /\ IsResolve =>
              /\ MapHas(cache', last'.key)
              /\ MapGet(cache', last'.key).data = last'.data
              /\ MapGet(cache', last'.key).timestamp = now
       /\ (IsResolve /\ gets = 0) => hits' = 0 /\ misses' = 0
       /\ (cache = << >> /\ cache' # << >>) => IsResolve]_vars

\* A call that was pending when clearCache ran has just stored its result:
\* the cache holds it although no lookup was counted since the clear.
C28_Witness ==
    /\ last.op = "resolve"
    /\ gets = 0
    /\ Len(cache) = 1
    /\ MapGet(cache, last.key).data = last.data
    /\ hits = 0
    /\ misses = 0

\* The entry for the request r is present and fresh in c at clock value t, and
\* its images map has no url for the node of r.
NullUrlCached(c, r, t) ==
    /\ Fresh(c, CacheKeyOf(r), t)
    /\ ImageOf(MapGet(c, CacheKeyOf(r)).data, r.nodeIds[1]) = Null

(***************************************************************************)
(* C29  A null image url is cached like a success: when the API answers    *)
(* with an images map in which the node maps to null or is missing,        *)
(* fetchImages stores that map, fetchImage returns null and the route      *)
(* answers 404; every later request for the same key while the entry is    *)
(* held and within its ttl is answered 404 from the cache: a hit, no call  *)
(* of the API, the map unchanged.                                          *)
(***************************************************************************)
C29_NullUrlCached ==
    [][/\ (IsFetched /\ ApiCalled(http'.query) /\ http'.thrown = NoError
                     /\ http'.url = Null) =>
              /\ NullUrlCached(cache', http'.request, now)
              /\ MapGet(cache', CacheKeyOf(http'.request)).timestamp = now
              /\ misses' = misses + 1
              /\ http'.response.status = 404
       /\ (IsFetched /\ NullUrlCached(cache, http'.request, now)) =>
              /\ ~ApiCalled(http'.query)
              /\ http'.thrown = NoError
              /\ http'.url = Null
              /\ http'.response.status = 404
              /\ cache' = cache
              /\ hits' = hits + 1
              /\ misses' = misses
              /\ clientInstance' = clientInstance]_vars

\* A request has just been answered 404 from a cached images map without a
\* url for its node: one miss (the request that stored the map), hits since.
C29_Witness ==
    /\ http.handled
    /\ http.request # NoRequest
    /\ http.thrown = NoError
    /\ http.response.status = 404
    /\ misses = 1
    /\ hits >= 1
    /\ NullUrlCached(cache, http.request, now)

\* The errors of the three validations of the preview route.
ValidationMessages ==
    {"Missing required parameter: nodeId",
     "Invalid format. Must be: png, svg, or jpg",
     "Invalid scale. Must be a number between 0 and 4"}

(***************************************************************************)
(* C30  The preview route validates before it fetches: a request rejected  *)
(* with 400 for a missing nodeId, an invalid format or an invalid scale    *)
(* never calls fetchImage: the map, hits and misses are unchanged, no      *)
(* lookup is counted, no client is created and nothing was thrown.         *)
(***************************************************************************)
C30_ValidatesBeforeFetch ==
    [][(IsHandled /\ http'.response.status = 400
                  /\ http'.response.error \in ValidationMessages) =>
        /\ \/ ~Present(http'.query.nodeId)
           \/ FormatParam(http'.query) \notin {"png", "svg", "jpg"}
           \/ ScaleParam(http'.query).nan
           \/ ScaleParam(http'.query).tenths <= 0
           \/ ScaleParam(http'.query).tenths > 40
        /\ http'.request = NoRequest
        /\ http'.thrown = NoError
        /\ ~ApiCalled(http'.query)
        /\ cache' = cache
        /\ hits' = hits
        /\ misses' = misses
        /\ gets' = gets
        /\ clientInstance' = clientInstance]_vars

\* A request has just been rejected for its scale while the cache held an
\* entry and had counted a miss.
C30_Witness ==
    /\ http.handled
    /\ http.response.status = 400
    /\ http.response.error = "Invalid scale. Must be a number between 0 and 4"
    /\ http.request = NoRequest
    /\ Len(cache) >= 1
    /\ misses >= 1
====
